---- MODULE Spec2Model ----
(***************************************************************************)
(* Model of the hurl command-line orchestrator (packages/hurl/src/main.rs):*)
(* input resolution, the per-file execution loop, the report writers and   *)
(* the exit-code classification.                                           *)
(***************************************************************************)
EXTENDS Integers, Sequences, FiniteSets, TLC

(***************************************************************************)
(* Bounds of the model.                                                    *)
(***************************************************************************)
\* Largest number of sources (positional + glob) given on the command line.
MaxSources == 2
\* Largest number of errors one HurlResult carries, and largest number of
\* errors in the runs of a batch.
MaxErrors == 3
\* Largest RunRecord collection handed to create_cookies_file on its own.
MaxCookieRuns == 2
\* Largest RunRecord collection handed to get_summary on its own, every
\* collection up to that size being tried.
MaxSummaryRuns == 3
\* Size of the large batches get_summary is also applied to, and the largest
\* number of successful runs in such a batch.
LargeBatch == 2000
MaxLargeSuccess == 40

(***************************************************************************)
(* Exit codes.                                                             *)
(***************************************************************************)
EXIT_OK == 0
EXIT_ERROR_COMMANDLINE == 1
EXIT_ERROR_PARSING == 2
EXIT_ERROR_RUNTIME == 3
EXIT_ERROR_ASSERT == 4
EXIT_ERROR_UNDEFINED == 127
\* Status of a Rust process whose main thread panics: 101 when the panic
\* unwinds, 134 (128 + SIGABRT) when the build aborts on panic.
EXIT_PANIC_UNWIND == 101
EXIT_PANIC_ABORT == 134
PanicExitCodes == {EXIT_PANIC_UNWIND, EXIT_PANIC_ABORT}
\* exitCode while the process is still running.
Running == -1

(***************************************************************************)
(* Inputs.                                                                 *)
(***************************************************************************)
\* Paths the command line can name.
Paths == {"a.hurl", "b.hurl"}
\* The sentinel get_input_files substitutes for the standard input.
Stdin == "-"

\* All sequences over S of length at most n.
SeqUpTo(S, n) == UNION {[1..k -> S] : k \in 0..n}

\* Text of a source, as cli::read_to_string returns it.
ContentOf(filename) == <<"content of", filename>>

\* cli::OutputType
OutputTypes == {"ResponseBody", "Json", "NoOutput"}

\* cli::CliOptions, the fields main reads. An Option<..> field is modelled by
\* its is_some().
CliOptions ==
    [cookie_output_file : BOOLEAN,
     junit_file : BOOLEAN,
     html_dir : BOOLEAN,
     test : BOOLEAN,
     interactive : BOOLEAN,
     output_type : OutputTypes]

NoOptions ==
    [cookie_output_file |-> FALSE, junit_file |-> FALSE, html_dir |-> FALSE,
     test |-> FALSE, interactive |-> FALSE, output_type |-> "NoOutput"]

\* The error lists HurlResult::errors() can return: each error carries its
\* `assert` flag (TRUE for an assertion error, FALSE for a runner error).
ErrorLists == SeqUpTo([assert : BOOLEAN], MaxErrors)

\* Cookies a session on a source ends with.
CookiesOf(filename) == IF filename = "a.hurl" THEN <<"cookie1">> ELSE <<>>

\* The outcomes runner::run can return for a source that parses.
HurlResults(filename) ==
    {[errors |-> e, success |-> (e = <<>>), cookies |-> CookiesOf(filename)] :
        e \in ErrorLists}

\* struct HurlRun
HurlRun(content, filename, hurl_result) ==
    [content |-> content, filename |-> filename, hurl_result |-> hurl_result]

(***************************************************************************)
(* Pure functions of main.rs.                                              *)
(***************************************************************************)
\* CountNonAssert with the filter's test inverted (|e| e.assert).
CountNonAssert_Inverted(errors) ==
    Cardinality({i \in DOMAIN errors : errors[i].assert})

\* Number of non-assertion errors of an error list:
\* errors.iter().filter(|e| !e.assert).count()
CountNonAssert(errors) ==
    Cardinality({i \in DOMAIN errors : ~errors[i].assert})

\* CountErrorsAssert without the errors.is_empty() branch before it.
CountErrorsAssert_NoEmptyBranch(rs) ==
    Cardinality({i \in DOMAIN rs :
        CountNonAssert(rs[i].hurl_result.errors) = 0})

\* count_errors_assert after the loop of exit_code.
CountErrorsAssert(rs) ==
    Cardinality({i \in DOMAIN rs :
        /\ rs[i].hurl_result.errors # <<>>
        /\ CountNonAssert(rs[i].hurl_result.errors) = 0})

\* count_errors_runner after the loop of exit_code.
CountErrorsRunner(rs) ==
    Cardinality({i \in DOMAIN rs :
        /\ rs[i].hurl_result.errors # <<>>
        /\ CountNonAssert(rs[i].hurl_result.errors) # 0})

\* exit_code testing count_errors_assert before count_errors_runner.
exit_code_AssertFirst(rs) ==
    IF CountErrorsAssert(rs) > 0 THEN EXIT_ERROR_ASSERT
    ELSE IF CountErrorsRunner(rs) > 0 THEN EXIT_ERROR_RUNTIME
    ELSE EXIT_OK

\* exit_code returning EXIT_ERROR_RUNTIME for assertion failures too.
exit_code_RuntimeForAssert(rs) ==
    IF CountErrorsRunner(rs) > 0 THEN EXIT_ERROR_RUNTIME
    ELSE IF CountErrorsAssert(rs) > 0 THEN EXIT_ERROR_RUNTIME
    ELSE EXIT_OK

\* exit_code taking no account of assertion failures.
exit_code_OkForAssert(rs) ==
    IF CountErrorsRunner(rs) > 0 THEN EXIT_ERROR_RUNTIME ELSE EXIT_OK

\* fn exit_code(runs)
exit_code(rs) ==
    IF CountErrorsRunner(rs) > 0 THEN EXIT_ERROR_RUNTIME
    ELSE IF CountErrorsAssert(rs) > 0 THEN EXIT_ERROR_ASSERT
    ELSE EXIT_OK

\* InputFilesList pushing the glob-expanded paths before the positional ones.
InputFilesList_GlobFirst(files, glob_files) ==
    glob_files \o (IF files.some THEN files.values ELSE <<>>)

\* The list get_input_files builds before it looks at the standard input:
\* the positional values, then the glob-expanded paths.
\* files is the Option<Vec<String>> of the positional arguments.
InputFilesList(files, glob_files) ==
    (IF files.some THEN files.values ELSE <<>>) \o glob_files

\* get_input_files without the atty::is(Stream::Stdin) test: an empty list
\* always becomes the standard input.
get_input_files_NoTtyTest(files, glob_files, stdinTty, helpOk) ==
    LET list == InputFilesList(files, glob_files)
    IN  [exit |-> FALSE, code |-> Running, message |-> "", usage |-> "none",
         filenames |-> IF list = <<>> THEN <<Stdin>> ELSE list]

\* fn get_input_files(files, glob_files, app, logger): the list it returns, or
\* the exit it takes when the list is empty and the standard input is a
\* terminal; helpOk tells whether app.print_help() succeeded.
get_input_files(files, glob_files, stdinTty, helpOk) ==
    LET list == InputFilesList(files, glob_files)
    IN  IF list = <<>>
        THEN IF stdinTty
             THEN [exit |-> TRUE, code |-> EXIT_ERROR_COMMANDLINE,
                   message |-> IF helpOk THEN "" ELSE "Panic during printing help",
                   usage |-> IF helpOk THEN "printed" ELSE "failed",
                   filenames |-> <<>>]
             ELSE [exit |-> FALSE, code |-> Running, message |-> "",
                   usage |-> "none", filenames |-> <<Stdin>>]
        ELSE [exit |-> FALSE, code |-> Running, message |-> "",
              usage |-> "none", filenames |-> list]

\* The positional arguments cli::get_strings can return.
FileArgs ==
    {[some |-> FALSE, values |-> <<>>]} \cup
    {[some |-> TRUE, values |-> v] : v \in SeqUpTo(Paths, MaxSources) \ {<<>>}}

\* A file on disk: absent, or present with its lines.
NoFile == [exists |-> FALSE, lines |-> <<>>]
FileWith(lines) == [exists |-> TRUE, lines |-> lines]

CookieHeader ==
    <<"# Netscape HTTP Cookie File", "# This file was generated by Hurl", "">>

\* fn create_cookies_file(runs, filename): the Result it returns and the file
\* it leaves, given the file found there and whether File::create and
\* write_all succeed.
create_cookies_file(rs, old, createOk, writeOk) ==
    IF ~createOk
    THEN [ok |-> FALSE, message |-> "Issue writing to file", file |-> old]
    ELSE IF rs = <<>>
    THEN [ok |-> FALSE, message |-> "Issue fetching results", file |-> FileWith(<<>>)]
    ELSE IF ~writeOk
    THEN [ok |-> FALSE, message |-> "Issue writing to file", file |-> FileWith(<<>>)]
    ELSE [ok |-> TRUE, message |-> "",
          file |-> FileWith(CookieHeader \o rs[1].hurl_result.cookies)]

(***************************************************************************)
(* f32 arithmetic and formatting of get_summary.                           *)
(***************************************************************************)
\* Smallest significand of a normal f32 (24 bits of precision).
F32_MIN_SIGNIFICAND == 8388608

\* Shifts the quotient q (remainder r, divisor d) left until it holds the 24
\* bits of an f32 significand; k counts the shifts.
RECURSIVE F32Normalize(_, _, _, _)
F32Normalize(q, r, d, k) ==
    IF q >= F32_MIN_SIGNIFICAND
    THEN [q |-> q, r |-> r, k |-> k]
    ELSE IF 2 * r >= d
         THEN F32Normalize(2 * q + 1, 2 * r - d, d, k + 1)
         ELSE F32Normalize(2 * q, 2 * r, d, k + 1)

\* n as f32 / d as f32 for integers n, d >= 0 that f32 holds exactly: NaN for
\* 0.0 / 0.0, infinite for n / 0.0, otherwise the value m / 2^k nearest to
\* n / d, ties to even.
F32Div(n, d) ==
    IF d = 0
    THEN [nan |-> n = 0, inf |-> n # 0, m |-> 0, k |-> 0]
    ELSE IF n = 0
    THEN [nan |-> FALSE, inf |-> FALSE, m |-> 0, k |-> 0]
    ELSE LET s == F32Normalize(n \div d, n % d, d, 0)
             up == 2 * s.r > d \/ (2 * s.r = d /\ s.q % 2 = 1)
         IN  [nan |-> FALSE, inf |-> FALSE,
              m |-> IF up THEN s.q + 1 ELSE s.q, k |-> s.k]

\* Format1 cutting the digits after the first decimal instead of rounding.
Format1_Truncate(v) ==
    [nan |-> v.nan, inf |-> v.inf, tenths |-> (10 * v.m) \div (2 ^ v.k)]

\* format!("{:.1}", v): "NaN", "inf", or the decimal with one digit after the
\* point nearest to the exact value of v, ties to even, given in tenths.
Format1(v) ==
    LET scaled == 10 * v.m
        unit == 2 ^ v.k
        q == scaled \div unit
        r == scaled % unit
        up == 2 * r > unit \/ (2 * r = unit /\ q % 2 = 1)
    IN  [nan |-> v.nan, inf |-> v.inf, tenths |-> IF up THEN q + 1 ELSE q]

\* fn get_summary(runs, duration): the numbers the summary text prints.
get_summary(rs, duration) ==
    LET total == Len(rs)
        success == Cardinality({i \in DOMAIN rs : rs[i].hurl_result.success})
        success_percent == F32Div(100 * success, total)
        failed == total - success
        failed_percent == F32Div(100 * failed, total)
    IN  [total |-> total,
         success |-> success,
         success_percent |-> Format1(success_percent),
         failed |-> failed,
         failed_percent |-> Format1(failed_percent),
         duration |-> duration]

\* junit::Testcase::from(&r.hurl_result, &r.content, &r.filename): the
\* testcase of a RunRecord, named after the source, with its assertion
\* errors as failures and its runner errors as errors.
JunitTestcase(run) ==
    [name |-> run.filename,
     failures |-> Cardinality({i \in DOMAIN run.hurl_result.errors :
                                  run.hurl_result.errors[i].assert}),
     errors |-> CountNonAssert(run.hurl_result.errors)]

\* fn create_junit_report(runs, filename): the Result it returns and the
\* testcases it hands to junit::write_report, which succeeds or not.
create_junit_report(rs, writeOk) ==
    LET testcases == [i \in DOMAIN rs |-> JunitTestcase(rs[i])]
    IN  [ok |-> writeOk, testcases |-> testcases]

\* create_html_report handing the index writer the testcases without the
\* last one.
create_html_report_IndexShort(rs, dirOk, failPage, indexOk) ==
    LET page(i) == rs[i].filename
    IN  IF ~dirOk
        THEN [panic |-> TRUE, ok |-> FALSE, pages |-> <<>>, index |-> <<>>]
        ELSE IF failPage \in DOMAIN rs
        THEN [panic |-> FALSE, ok |-> FALSE,
              pages |-> [i \in 1..(failPage - 1) |-> page(i)], index |-> <<>>]
        ELSE IF ~indexOk
        THEN [panic |-> FALSE, ok |-> FALSE,
              pages |-> [i \in DOMAIN rs |-> page(i)], index |-> <<>>]
        ELSE [panic |-> FALSE, ok |-> TRUE,
              pages |-> [i \in DOMAIN rs |-> page(i)],
              index |-> [i \in 1..(Len(rs) - 1) |-> page(i)]]

\* fn create_html_report(runs, dir_path): whether create_dir_all(..).unwrap()
\* panics, the Result otherwise, and the detail pages and index written.
\* failPage is the run whose write_html fails (0: none), indexOk whether
\* html::write_report succeeds.
create_html_report(rs, dirOk, failPage, indexOk) ==
    LET page(i) == rs[i].filename
    IN  IF ~dirOk
        THEN [panic |-> TRUE, ok |-> FALSE, pages |-> <<>>, index |-> <<>>]
        ELSE IF failPage \in DOMAIN rs
        THEN [panic |-> FALSE, ok |-> FALSE,
              pages |-> [i \in 1..(failPage - 1) |-> page(i)], index |-> <<>>]
        ELSE IF ~indexOk
        THEN [panic |-> FALSE, ok |-> FALSE,
              pages |-> [i \in DOMAIN rs |-> page(i)], index |-> <<>>]
        ELSE [panic |-> FALSE, ok |-> TRUE,
              pages |-> [i \in DOMAIN rs |-> page(i)],
              index |-> [i \in DOMAIN rs |-> page(i)]]

(***************************************************************************)
(* State.                                                                  *)
(***************************************************************************)
VARIABLES
    pc,          \* position in main
    opts,        \* cli_options
    filenames,   \* the resolved sources
    current,     \* sources the loop has gone past
    runs,        \* Vec<HurlRun>
    exitCode,    \* status the process exited with, Running before
    exitSite,    \* the call that ended the process
    stderr,      \* lines main printed with base_logger.error
    usage,       \* whether print_help was called, and whether it printed
    reads,       \* sources cli::read_to_string was called on
    started,     \* sources logger.test_running was called for
    executed,    \* sources the engine was invoked on
    completed,   \* sources logger.test_completed was called for
    outputs,     \* per-source outputs written (write_body, write_json)
    reports,     \* report artifacts written, in order
    junitTestcases, \* testcases of the JUnit report written
    htmlPages,   \* detail pages of the HTML report, in order
    htmlIndex,   \* testcases of the HTML report's index
    cookieFile,  \* the cookie file on disk
    fnRuns,      \* a function applied on its own: the RunRecords given
    fnResult,    \* a function applied on its own: its result
    fnArgs       \* a function applied on its own: its other arguments

vars ==
    <<pc, opts, filenames, current, runs, exitCode, exitSite, stderr, usage,
      reads, started, executed, completed, outputs, reports, junitTestcases,
      htmlPages, htmlIndex, cookieFile, fnRuns, fnResult, fnArgs>>

fnVars == <<fnRuns, fnResult, fnArgs>>

\* fnArgs of a function that takes the RunRecords only, and in main.
NoArgs == [none |-> TRUE]

NoResult == [called |-> FALSE, ok |-> FALSE, message |-> "", before |-> NoFile]

Init ==
    /\ pc = "parse_options"
    /\ opts = NoOptions
    /\ filenames = <<>>
    /\ current = 0
    /\ runs = <<>>
    /\ exitCode = Running
    /\ exitSite = "none"
    /\ stderr = <<>>
    /\ usage = "none"
    /\ reads = <<>>
    /\ started = <<>>
    /\ executed = <<>>
    /\ completed = <<>>
    /\ outputs = <<>>
    /\ reports = <<>>
    /\ junitTestcases = <<>>
    /\ htmlPages = <<>>
    /\ htmlIndex = <<>>
    /\ cookieFile = NoFile
    /\ fnRuns = <<>>
    /\ fnResult = NoResult
    /\ fnArgs = NoArgs

\* exit_with_error without its logger.error(message) call.
Exit_NoMessage(site, code, message) ==
    /\ pc' = "done"
    /\ exitCode' = code
    /\ exitSite' = site
    /\ stderr' = stderr

\* std::process::exit(code) at `site`, after printing `message` when not empty
\* (exit_with_error).
Exit(site, code, message) ==
    /\ pc' = "done"
    /\ exitCode' = code
    /\ exitSite' = site
    /\ stderr' = IF message = "" THEN stderr ELSE Append(stderr, message)

(***************************************************************************)
(* main, up to the loop.                                                   *)
(***************************************************************************)
loopVars == <<reads, started, executed, completed, outputs, runs, current>>
reportVars == <<reports, junitTestcases, htmlPages, htmlIndex, cookieFile>>

\* cli::parse_options succeeds.
ParseOptions ==
    /\ pc = "parse_options"
    /\ \E o \in CliOptions : opts' = o
    /\ pc' = "get_input_files"
    /\ UNCHANGED <<filenames, exitCode, exitSite, stderr, usage>>
    /\ UNCHANGED <<loopVars, reportVars, fnVars>>

\* cli::parse_options fails: unwrap_or_exit(.., EXIT_ERROR_UNDEFINED, ..).
ParseOptionsError ==
    /\ pc = "parse_options"
    /\ Exit("parse_options", EXIT_ERROR_UNDEFINED, "invalid options")
    /\ UNCHANGED <<opts, filenames, usage, loopVars, reportVars, fnVars>>

\* let filenames = get_input_files(&files, glob_files, &mut app, &base_logger)
GetInputFiles ==
    /\ pc = "get_input_files"
    /\ \E files \in FileArgs, glob_files \in SeqUpTo(Paths, MaxSources),
          stdinTty \in BOOLEAN, helpOk \in BOOLEAN :
          LET r == get_input_files(files, glob_files, stdinTty, helpOk)
          IN  /\ Len(InputFilesList(files, glob_files)) <= MaxSources
              /\ usage' = r.usage
              /\ IF r.exit
                 THEN /\ Exit("get_input_files", r.code, r.message)
                      /\ UNCHANGED filenames
                 ELSE /\ filenames' = r.filenames
                      /\ pc' = "check_cookie"
                      /\ UNCHANGED <<exitCode, exitSite, stderr>>
    /\ UNCHANGED <<opts, loopVars, reportVars, fnVars>>

\* CheckCookie without the test: main goes on to the loop.
CheckCookie_NoTest ==
    /\ pc = "check_cookie"
    /\ pc' = "current_dir"
    /\ UNCHANGED <<exitCode, exitSite, stderr>>
    /\ UNCHANGED <<opts, filenames, usage, loopVars, reportVars, fnVars>>

\* if cli_options.cookie_output_file.is_some() && filenames.len() > 1
CheckCookie ==
    /\ pc = "check_cookie"
    /\ IF opts.cookie_output_file /\ Len(filenames) > 1
       THEN Exit("check_cookie", EXIT_ERROR_UNDEFINED,
                 "Only save cookies for a unique session")
       ELSE /\ pc' = "current_dir"
            /\ UNCHANGED <<exitCode, exitSite, stderr>>
    /\ UNCHANGED <<opts, filenames, usage, loopVars, reportVars, fnVars>>

\* Where the for loop goes once `done` sources are behind it.
LoopPc(done) == IF done < Len(filenames) THEN "loop" ELSE "junit"

\* env::current_dir() succeeds; runs = vec![] and the loop starts.
CurrentDir ==
    /\ pc = "current_dir"
    /\ pc' = LoopPc(0)
    /\ current' = 0
    /\ runs' = <<>>
    /\ UNCHANGED <<opts, filenames, exitCode, exitSite, stderr, usage>>
    /\ UNCHANGED <<reads, started, executed, completed, outputs>>
    /\ UNCHANGED <<reportVars, fnVars>>

\* env::current_dir() fails: unwrap_or_exit(.., EXIT_ERROR_UNDEFINED, ..).
CurrentDirError ==
    /\ pc = "current_dir"
    /\ Exit("current_dir", EXIT_ERROR_UNDEFINED, "current directory error")
    /\ UNCHANGED <<opts, filenames, usage, loopVars, reportVars, fnVars>>

(***************************************************************************)
(* One iteration of the loop over filenames.                               *)
(***************************************************************************)
\* The source of this iteration.
Filename == filenames[current + 1]

\* let output_body = success && !interactive && output_type is ResponseBody
OutputBody(h) ==
    h.success /\ ~opts.interactive /\ opts.output_type = "ResponseBody"

\* The outputs written for a source before write_json is called.
BodyOutput(h) ==
    IF OutputBody(h) THEN <<[kind |-> "body", filename |-> Filename]>> ELSE <<>>

\* NoSuchFile leaving the missing source to the end of the run: the loop goes
\* past it and the exit waits until the reports are written.
NoSuchFile_Deferred ==
    /\ pc \in {"loop", "exit_code"}
    /\ IF pc = "loop"
       THEN /\ Filename # Stdin
            /\ current' = current + 1
            /\ pc' = LoopPc(current + 1)
            /\ exitSite' = "no_such_file"
            /\ UNCHANGED <<exitCode, stderr>>
       ELSE /\ exitSite = "no_such_file"
            /\ Exit("no_such_file", EXIT_ERROR_PARSING, "hurl: cannot access file")
            /\ UNCHANGED current
    /\ UNCHANGED <<opts, filenames, usage, reportVars, fnVars>>
    /\ UNCHANGED <<reads, started, executed, completed, outputs, runs>>

\* filename != "-" && !Path::new(filename).exists()
NoSuchFile ==
    /\ pc = "loop"
    /\ Filename # Stdin
    /\ Exit("no_such_file", EXIT_ERROR_PARSING, "hurl: cannot access file")
    /\ UNCHANGED <<opts, filenames, usage, loopVars, reportVars, fnVars>>

\* cli::read_to_string(filename) fails.
ReadError ==
    /\ pc = "loop"
    /\ reads' = Append(reads, Filename)
    /\ Exit("read_to_string", EXIT_ERROR_PARSING, "read error")
    /\ UNCHANGED <<opts, filenames, usage, reportVars, fnVars>>
    /\ UNCHANGED <<started, executed, completed, outputs, runs, current>>

\* ParseFailure exiting with the runtime code instead of the parsing code.
ParseFailure_Runtime ==
    /\ pc = "loop"
    /\ reads' = Append(reads, Filename)
    /\ started' = Append(started, Filename)
    /\ executed' = Append(executed, Filename)
    /\ Exit("execute", EXIT_ERROR_RUNTIME, "")
    /\ UNCHANGED <<opts, filenames, usage, reportVars, fnVars>>
    /\ UNCHANGED <<completed, outputs, runs, current>>

\* execute(..) returns Err: std::process::exit(EXIT_ERROR_PARSING).
ParseFailure ==
    /\ pc = "loop"
    /\ reads' = Append(reads, Filename)
    /\ started' = Append(started, Filename)
    /\ executed' = Append(executed, Filename)
    /\ Exit("execute", EXIT_ERROR_PARSING, "")
    /\ UNCHANGED <<opts, filenames, usage, reportVars, fnVars>>
    /\ UNCHANGED <<completed, outputs, runs, current>>

\* The calls of an iteration up to logger.test_completed.
Executed ==
    /\ reads' = Append(reads, Filename)
    /\ started' = Append(started, Filename)
    /\ executed' = Append(executed, Filename)
    /\ completed' = Append(completed, Filename)

\* output::write_body fails: unwrap_or_exit(result, EXIT_ERROR_RUNTIME, ..).
WriteBodyError ==
    /\ pc = "loop"
    /\ \E h \in HurlResults(Filename) : OutputBody(h)
    /\ Executed
    /\ Exit("write_body", EXIT_ERROR_RUNTIME, "output error")
    /\ UNCHANGED <<opts, filenames, usage, reportVars, fnVars>>
    /\ UNCHANGED <<outputs, runs, current>>

\* output::write_json fails: unwrap_or_exit(result, EXIT_ERROR_RUNTIME, ..).
WriteJsonError ==
    /\ pc = "loop"
    /\ opts.output_type = "Json"
    /\ Executed
    /\ \E h \in HurlResults(Filename) : outputs' = outputs \o BodyOutput(h)
    /\ Exit("write_json", EXIT_ERROR_RUNTIME, "output error")
    /\ UNCHANGED <<opts, filenames, usage, reportVars, fnVars>>
    /\ UNCHANGED <<runs, current>>

\* The number of errors in the runs.
RECURSIVE ErrorCount(_)
ErrorCount(rs) ==
    IF rs = <<>> THEN 0
    ELSE Len(rs[1].hurl_result.errors) + ErrorCount(Tail(rs))

\* RunFile putting the new run in front of the earlier ones.
RunFile_Prepend ==
    /\ pc = "loop"
    /\ Executed
    /\ \E h \in HurlResults(Filename) :
          /\ ErrorCount(runs) + Len(h.errors) <= MaxErrors
          /\ outputs' = outputs \o BodyOutput(h) \o
                (IF opts.output_type = "Json"
                 THEN <<[kind |-> "json", filename |-> Filename]>> ELSE <<>>)
          /\ runs' = <<HurlRun(ContentOf(Filename), Filename, h)>> \o runs
    /\ current' = current + 1
    /\ pc' = LoopPc(current + 1)
    /\ UNCHANGED <<opts, filenames, exitCode, exitSite, stderr, usage>>
    /\ UNCHANGED <<reportVars, fnVars>>

\* RunFile writing neither the response body nor the JSON result.
RunFile_NoOutput ==
    /\ pc = "loop"
    /\ Executed
    /\ \E h \in HurlResults(Filename) :
          /\ ErrorCount(runs) + Len(h.errors) <= MaxErrors
          /\ runs' = Append(runs, HurlRun(ContentOf(Filename), Filename, h))
    /\ current' = current + 1
    /\ pc' = LoopPc(current + 1)
    /\ UNCHANGED <<opts, filenames, exitCode, exitSite, stderr, usage>>
    /\ UNCHANGED <<outputs, reportVars, fnVars>>

\* The iteration runs to runs.push(run).
RunFile ==
    /\ pc = "loop"
    /\ Executed
    /\ \E h \in HurlResults(Filename) :
          /\ ErrorCount(runs) + Len(h.errors) <= MaxErrors
          /\ outputs' = outputs \o BodyOutput(h) \o
                (IF opts.output_type = "Json"
                 THEN <<[kind |-> "json", filename |-> Filename]>> ELSE <<>>)
          /\ runs' = Append(runs, HurlRun(ContentOf(Filename), Filename, h))
    /\ current' = current + 1
    /\ pc' = LoopPc(current + 1)
    /\ UNCHANGED <<opts, filenames, exitCode, exitSite, stderr, usage>>
    /\ UNCHANGED <<reportVars, fnVars>>

(***************************************************************************)
(* The report writers and the exit code.                                   *)
(***************************************************************************)
\* if let Some(filename) = cli_options.junit_file: create_junit_report
\* succeeds, or no JUnit report is requested.
JunitReport ==
    /\ pc = "junit"
    /\ IF opts.junit_file
       THEN LET r == create_junit_report(runs, TRUE)
            IN  /\ r.ok
                /\ junitTestcases' = r.testcases
                /\ reports' = Append(reports, "junit")
       ELSE UNCHANGED <<reports, junitTestcases>>
    /\ pc' = "html"
    /\ UNCHANGED <<opts, filenames, exitCode, exitSite, stderr, usage>>
    /\ UNCHANGED <<loopVars, htmlPages, htmlIndex, cookieFile, fnVars>>

\* JunitReportError logging the failure and going on to the next writer.
JunitReportError_Continue ==
    /\ pc = "junit"
    /\ opts.junit_file
    /\ ~create_junit_report(runs, FALSE).ok
    /\ stderr' = Append(stderr, "junit report error")
    /\ pc' = "html"
    /\ UNCHANGED <<exitCode, exitSite>>
    /\ UNCHANGED <<opts, filenames, usage, loopVars, reportVars, fnVars>>

\* create_junit_report fails: unwrap_or_exit(result, EXIT_ERROR_UNDEFINED, ..).
JunitReportError ==
    /\ pc = "junit"
    /\ opts.junit_file
    /\ ~create_junit_report(runs, FALSE).ok
    /\ Exit("junit", EXIT_ERROR_UNDEFINED, "junit report error")
    /\ UNCHANGED <<opts, filenames, usage, loopVars, reportVars, fnVars>>

\* if let Some(dir) = cli_options.html_dir: create_html_report succeeds, or
\* no HTML report is requested.
HtmlReport ==
    /\ pc = "html"
    /\ IF opts.html_dir
       THEN LET r == create_html_report(runs, TRUE, 0, TRUE)
            IN  /\ htmlPages' = r.pages
                /\ htmlIndex' = r.index
                /\ reports' = Append(reports, "html")
       ELSE UNCHANGED <<reports, htmlPages, htmlIndex>>
    /\ pc' = "cookies"
    /\ UNCHANGED <<opts, filenames, exitCode, exitSite, stderr, usage>>
    /\ UNCHANGED <<loopVars, junitTestcases, cookieFile, fnVars>>

\* std::fs::create_dir_all(dir_path.join("store")).unwrap() panics.
HtmlReportPanic ==
    /\ pc = "html"
    /\ opts.html_dir
    /\ create_html_report(runs, FALSE, 0, TRUE).panic
    /\ \E code \in PanicExitCodes :
          Exit("html_panic", code, "thread 'main' panicked")
    /\ UNCHANGED <<opts, filenames, usage, loopVars, reportVars, fnVars>>

\* create_html_report returns Err (a detail page or the index fails):
\* unwrap_or_exit(result, EXIT_ERROR_UNDEFINED, ..).
HtmlReportError ==
    /\ pc = "html"
    /\ opts.html_dir
    /\ \E failPage \in 0..Len(runs) :
          LET r == create_html_report(runs, TRUE, failPage, failPage # 0)
          IN  /\ ~r.ok /\ ~r.panic
              /\ htmlPages' = r.pages
              /\ htmlIndex' = r.index
    /\ Exit("html", EXIT_ERROR_UNDEFINED, "html report error")
    /\ UNCHANGED <<opts, filenames, usage, loopVars, fnVars>>
    /\ UNCHANGED <<reports, junitTestcases, cookieFile>>

\* if let Some(filename) = cli_options.cookie_output_file:
\* create_cookies_file succeeds, or no cookie file is requested.
CookiesFile ==
    /\ pc = "cookies"
    /\ IF opts.cookie_output_file
       THEN \E createOk, writeOk \in BOOLEAN :
               LET r == create_cookies_file(runs, cookieFile, createOk, writeOk)
               IN  /\ r.ok
                   /\ cookieFile' = r.file
                   /\ reports' = Append(reports, "cookies")
       ELSE UNCHANGED <<reports, cookieFile>>
    /\ pc' = "summary"
    /\ UNCHANGED <<opts, filenames, exitCode, exitSite, stderr, usage>>
    /\ UNCHANGED <<loopVars, junitTestcases, htmlPages, htmlIndex, fnVars>>

\* create_cookies_file returns Err:
\* unwrap_or_exit(result, EXIT_ERROR_UNDEFINED, ..).
CookiesFileError ==
    /\ pc = "cookies"
    /\ opts.cookie_output_file
    /\ \E createOk, writeOk \in BOOLEAN :
          LET r == create_cookies_file(runs, cookieFile, createOk, writeOk)
          IN  /\ ~r.ok
              /\ cookieFile' = r.file
              /\ Exit("cookies", EXIT_ERROR_UNDEFINED, r.message)
    /\ UNCHANGED <<opts, filenames, usage, loopVars, fnVars>>
    /\ UNCHANGED <<reports, junitTestcases, htmlPages, htmlIndex>>

\* if cli_options.test: the summary is logged.
Summary ==
    /\ pc = "summary"
    /\ reports' = IF opts.test THEN Append(reports, "summary") ELSE reports
    /\ pc' = "exit_code"
    /\ UNCHANGED <<opts, filenames, exitCode, exitSite, stderr, usage>>
    /\ UNCHANGED <<loopVars, junitTestcases, htmlPages, htmlIndex, cookieFile, fnVars>>

\* std::process::exit(exit_code(&runs))
ExitCode ==
    /\ pc = "exit_code"
    /\ Exit("exit_code", exit_code(runs), "")
    /\ UNCHANGED <<opts, filenames, usage, loopVars, reportVars, fnVars>>

Next ==
    \/ ParseOptions
    \/ ParseOptionsError
    \/ GetInputFiles
    \/ CheckCookie
    \/ CurrentDir
    \/ CurrentDirError
    \/ NoSuchFile
    \/ ReadError
    \/ ParseFailure
    \/ WriteBodyError
    \/ WriteJsonError
    \/ RunFile
    \/ JunitReport
    \/ JunitReportError
    \/ HtmlReport
    \/ HtmlReportPanic
    \/ HtmlReportError
    \/ CookiesFile
    \/ CookiesFileError
    \/ Summary
    \/ ExitCode

Spec == Init /\ [][Next]_vars

(***************************************************************************)
(* create_cookies_file on its own, applied to any RunRecord collection.    *)
(***************************************************************************)
\* The RunRecords a collection can hold.
RunRecords ==
    UNION {{HurlRun(ContentOf(f), f, h) : h \in HurlResults(f)} : f \in Paths}

\* A cookie file left by an earlier invocation.
OldCookieFile == FileWith(<<"# old cookie file">>)

InitCookies ==
    /\ pc = "create_cookies_file"
    /\ opts = NoOptions
    /\ filenames = <<>>
    /\ current = 0
    /\ runs = <<>>
    /\ exitCode = Running
    /\ exitSite = "none"
    /\ stderr = <<>>
    /\ usage = "none"
    /\ reads = <<>>
    /\ started = <<>>
    /\ executed = <<>>
    /\ completed = <<>>
    /\ outputs = <<>>
    /\ reports = <<>>
    /\ junitTestcases = <<>>
    /\ htmlPages = <<>>
    /\ htmlIndex = <<>>
    /\ cookieFile \in {NoFile, OldCookieFile}
    /\ fnRuns \in SeqUpTo(RunRecords, MaxCookieRuns)
    /\ fnResult = NoResult
    /\ fnArgs = NoArgs

\* create_cookies_file(&fnRuns, filename)
CallCreateCookiesFile ==
    /\ pc = "create_cookies_file"
    /\ \E createOk, writeOk \in BOOLEAN :
          LET r == create_cookies_file(fnRuns, cookieFile, createOk, writeOk)
          IN  /\ cookieFile' = r.file
              /\ fnResult' = [called |-> TRUE, ok |-> r.ok,
                              message |-> r.message, before |-> cookieFile]
    /\ pc' = "returned"
    /\ UNCHANGED <<opts, filenames, exitCode, exitSite, stderr, usage>>
    /\ UNCHANGED <<loopVars, reports, junitTestcases, htmlPages, htmlIndex>>
    /\ UNCHANGED <<fnRuns, fnArgs>>

NextCookies == CallCreateCookiesFile

SpecCookies == InitCookies /\ [][NextCookies]_vars

(***************************************************************************)
(* get_summary on its own, applied to any RunRecord collection.            *)
(***************************************************************************)
\* new_run(success, entries_count) of the test create_run_summary.
new_run(success) ==
    HurlRun("", "", [errors |-> <<>>, success |-> success, cookies |-> <<>>])

\* A batch of LargeBatch runs of which the first `success` succeeded.
LargeBatchRuns(success) ==
    [i \in 1..LargeBatch |-> new_run(i <= success)]

\* The collections get_summary is applied to.
SummaryInputs ==
    SeqUpTo({new_run(TRUE), new_run(FALSE)}, MaxSummaryRuns) \cup
    {LargeBatchRuns(s) : s \in 0..MaxLargeSuccess}

\* The durations of the test create_run_summary.
Durations == {128, 200}

InitSummary ==
    /\ pc = "get_summary"
    /\ opts = NoOptions
    /\ filenames = <<>>
    /\ current = 0
    /\ runs = <<>>
    /\ exitCode = Running
    /\ exitSite = "none"
    /\ stderr = <<>>
    /\ usage = "none"
    /\ reads = <<>>
    /\ started = <<>>
    /\ executed = <<>>
    /\ completed = <<>>
    /\ outputs = <<>>
    /\ reports = <<>>
    /\ junitTestcases = <<>>
    /\ htmlPages = <<>>
    /\ htmlIndex = <<>>
    /\ cookieFile = NoFile
    /\ fnRuns \in SummaryInputs
    /\ fnResult = [called |-> FALSE]
    /\ fnArgs \in {[duration |-> d] : d \in Durations}

\* get_summary(&fnRuns, duration)
CallGetSummary ==
    /\ pc = "get_summary"
    /\ fnResult' = [called |-> TRUE,
                    summary |-> get_summary(fnRuns, fnArgs.duration)]
    /\ pc' = "returned"
    /\ UNCHANGED <<opts, filenames, exitCode, exitSite, stderr, usage>>
    /\ UNCHANGED <<loopVars, reportVars, fnRuns, fnArgs>>

NextSummary == CallGetSummary

SpecSummary == InitSummary /\ [][NextSummary]_vars

(***************************************************************************)
(* get_input_files on its own, applied to any positional and glob lists.   *)
(***************************************************************************)
InitInputs ==
    /\ pc = "call_get_input_files"
    /\ opts = NoOptions
    /\ filenames = <<>>
    /\ current = 0
    /\ runs = <<>>
    /\ exitCode = Running
    /\ exitSite = "none"
    /\ stderr = <<>>
    /\ usage = "none"
    /\ reads = <<>>
    /\ started = <<>>
    /\ executed = <<>>
    /\ completed = <<>>
    /\ outputs = <<>>
    /\ reports = <<>>
    /\ junitTestcases = <<>>
    /\ htmlPages = <<>>
    /\ htmlIndex = <<>>
    /\ cookieFile = NoFile
    /\ fnRuns = <<>>
    /\ fnResult = [called |-> FALSE]
    /\ fnArgs \in [files : FileArgs, glob_files : SeqUpTo(Paths, MaxSources),
                    stdinTty : BOOLEAN, helpOk : BOOLEAN]

\* get_input_files(&files, glob_files, &mut app, &base_logger)
CallGetInputFiles ==
    /\ pc = "call_get_input_files"
    /\ fnResult' = [called |-> TRUE,
                    result |-> get_input_files(fnArgs.files, fnArgs.glob_files,
                                               fnArgs.stdinTty, fnArgs.helpOk)]
    /\ pc' = "returned"
    /\ UNCHANGED <<opts, filenames, exitCode, exitSite, stderr, usage>>
    /\ UNCHANGED <<loopVars, reportVars, fnRuns, fnArgs>>

NextInputs == CallGetInputFiles

SpecInputs == InitInputs /\ [][NextInputs]_vars

(***************************************************************************)
(* Properties.                                                             *)
(***************************************************************************)
\* The errors of a RunRecord, over all its steps.
ErrorsOf(run) == run.hurl_result.errors

\* The RunRecord contains a non-assertion (runner) error.
HasRunnerError(run) == \E i \in DOMAIN ErrorsOf(run) : ~ErrorsOf(run)[i].assert

\* The RunRecord contains an assertion error.
HasAssertError(run) == \E i \in DOMAIN ErrorsOf(run) : ErrorsOf(run)[i].assert

\* The process went through every stage and exited at
\* std::process::exit(exit_code(&runs)).
AtExitCodeStage == pc = "done" /\ exitSite = "exit_code"

\* No report artifact has been written.
NoReportWritten ==
    /\ reports = <<>>
    /\ junitTestcases = <<>>
    /\ htmlPages = <<>>
    /\ htmlIndex = <<>>
    /\ cookieFile = NoFile

\* Nothing of the loop has happened: no source read, no engine call, no
\* notification, no output, no RunRecord.
NothingExecuted ==
    /\ reads = <<>>
    /\ started = <<>>
    /\ executed = <<>>
    /\ completed = <<>>
    /\ outputs = <<>>
    /\ runs = <<>>

\* C1: a batch that reaches the exit-code stage with a runner error in some
\* RunRecord exits with 3, whatever the other RunRecords hold and wherever
\* that RunRecord stands.
C1_RunnerErrorExits3 ==
    (AtExitCodeStage /\ \E i \in DOMAIN runs : HasRunnerError(runs[i]))
        => exitCode = 3

\* C1 witness: a batch of two whose first record holds only assertion errors
\* and whose last record mixes an assertion and a runner error exits with 3.
C1_Witness ==
    /\ AtExitCodeStage
    /\ Len(runs) = 2
    /\ HasAssertError(runs[1]) /\ ~HasRunnerError(runs[1])
    /\ HasAssertError(runs[2]) /\ HasRunnerError(runs[2])
    /\ exitCode = 3

\* C2: a batch that reaches the exit-code stage with no runner error in any
\* RunRecord and an assertion error in some RunRecord exits with 4.
C2_AssertOnlyExits4 ==
    (/\ AtExitCodeStage
     /\ \A i \in DOMAIN runs : ~HasRunnerError(runs[i])
     /\ \E i \in DOMAIN runs : HasAssertError(runs[i]))
        => exitCode = 4

\* C2 witness: a successful record followed by one with two assertion errors
\* exits with 4.
C2_Witness ==
    /\ AtExitCodeStage
    /\ Len(runs) = 2
    /\ ErrorsOf(runs[1]) = <<>>
    /\ Len(ErrorsOf(runs[2])) = 2 /\ ~HasRunnerError(runs[2])
    /\ exitCode = 4

\* C3: a batch that reaches the exit-code stage with no error in any
\* RunRecord exits with 0.
C3_NoErrorExits0 ==
    (AtExitCodeStage /\ \A i \in DOMAIN runs : ErrorsOf(runs[i]) = <<>>)
        => exitCode = 0

\* C3 witness: two records without errors, exit code 0.
C3_Witness ==
    /\ AtExitCodeStage
    /\ Len(runs) = 2
    /\ \A i \in DOMAIN runs : ErrorsOf(runs[i]) = <<>>
    /\ exitCode = 0

\* C4: an exit for a source that does not exist or cannot be read ends the
\* process with code 2, with the sources before it executed and no report
\* written.
C4_SourceAccessExits2 ==
    exitSite \in {"no_such_file", "read_to_string"}
        => /\ pc = "done"
           /\ exitCode = 2
           /\ Len(runs) = current
           /\ NoReportWritten

\* C4 witness: the second source of a batch is missing after the first ran
\* with success, with a JUnit report, an HTML report and a summary requested.
C4_Witness ==
    /\ exitSite = "no_such_file"
    /\ exitCode = 2
    /\ current = 1
    /\ Len(runs) = 1 /\ runs[1].hurl_result.success
    /\ filenames[2] # Stdin
    /\ opts.junit_file /\ opts.html_dir /\ opts.test
    /\ NoReportWritten

\* C5: with no positional and no glob source and an interactive standard
\* input, get_input_files (whenever main is about to call it) prints the
\* usage and exits with 1; the process has then executed nothing, holds no
\* RunRecord and has written no report.
C5_NoSourceInteractiveExits1 ==
    /\ pc = "get_input_files" =>
          \A files \in FileArgs, glob_files \in SeqUpTo(Paths, MaxSources),
             helpOk \in BOOLEAN :
             InputFilesList(files, glob_files) = <<>> =>
                 LET r == get_input_files(files, glob_files, TRUE, helpOk)
                 IN  /\ r.exit
                     /\ r.code = 1
                     /\ r.usage = (IF helpOk THEN "printed" ELSE "failed")
    /\ exitSite = "get_input_files"
          => /\ pc = "done"
             /\ exitCode = 1
             /\ usage \in {"printed", "failed"}
             /\ usage = "failed" <=> stderr = <<"Panic during printing help">>
             /\ filenames = <<>>
             /\ NothingExecuted
             /\ NoReportWritten

\* C5 witness: the process exited from get_input_files after printing the
\* usage, with reports requested.
C5_Witness ==
    /\ pc = "done"
    /\ exitSite = "get_input_files"
    /\ usage = "printed"
    /\ exitCode = 1
    /\ opts.junit_file /\ opts.html_dir /\ opts.test /\ opts.cookie_output_file

\* C6, as claimed: create_cookies_file on a collection of zero or of two or
\* more RunRecords returns a descriptive error and leaves the cookie file as
\* it found it.
C6_Claim ==
    (fnResult.called /\ Len(fnRuns) # 1)
        => /\ ~fnResult.ok
           /\ fnResult.message # ""
           /\ cookieFile = fnResult.before

\* C7: with a cookie file requested and more than one source resolved, main
\* stops at the test after get_input_files: nothing is read, executed,
\* notified, recorded or written.
C7_CookieManySourcesNothingRuns ==
    (opts.cookie_output_file /\ Len(filenames) > 1)
        => /\ pc \in {"check_cookie", "done"}
           /\ pc = "done" => exitSite = "check_cookie"
           /\ NothingExecuted
           /\ NoReportWritten

\* C7 witness: the process exited at the test with two sources and every
\* report requested.
C7_Witness ==
    /\ pc = "done"
    /\ exitSite = "check_cookie"
    /\ opts.cookie_output_file /\ opts.junit_file /\ opts.html_dir /\ opts.test
    /\ Len(filenames) = 2
    /\ NothingExecuted

\* C8, as claimed: the exit for a cookie file requested with more than one
\* source carries the command-line-error code 1.
C8_Claim ==
    exitSite = "check_cookie" => exitCode = 1

\* C9, as claimed: every exit caused by a failure of a report writer (JUnit
\* report, HTML report with its directories, cookie file) carries code 127.
C9_Claim ==
    exitSite \in {"junit", "html_panic", "html", "cookies"} => exitCode = 127

\* C10, as claimed: the process exits with 3 only if some RunRecord contains
\* a runner error.
C10_Claim ==
    exitCode = 3 => \E i \in DOMAIN runs : HasRunnerError(runs[i])

\* C10, amended: the process exits with 3 only if it reached the exit-code
\* stage with a runner error in some RunRecord, or if writing the response
\* body or the JSON output of a source failed.
C10_Exit3OnlyRunnerErrorOrOutputFailure ==
    exitCode = 3
        => \/ AtExitCodeStage /\ \E i \in DOMAIN runs : HasRunnerError(runs[i])
           \/ exitSite \in {"write_body", "write_json"}

\* C10 witness: write_body fails on the second source of a batch that holds
\* no runner error, and the process exits with 3.
C10_Witness ==
    /\ exitCode = 3
    /\ exitSite = "write_body"
    /\ Len(runs) = 1
    /\ \A i \in DOMAIN runs : ~HasRunnerError(runs[i])

\* The exits main takes through exit_with_error (directly or through
\* unwrap_or_exit) with the message of an error.
MessageExitSites ==
    {"parse_options", "check_cookie", "current_dir", "no_such_file",
     "read_to_string", "write_body", "write_json", "junit", "html", "cookies"}

\* The exits of a fatal error: every exit but the one of the exit-code stage.
FatalExit == pc = "done" /\ exitSite # "exit_code"

\* C11, as claimed: on every exit for a fatal error exactly one non-empty
\* line has been printed to the error stream.
C11_Claim ==
    FatalExit => Len(stderr) = 1 /\ stderr[1] # ""

\* C11, amended: main prints exactly one non-empty error line before every
\* exit it takes through exit_with_error with an error's message; the usage
\* exit of get_input_files prints an error line only when printing the help
\* failed, the exit on an engine parse failure prints no line of main, and
\* the panic of create_dir_all leaves the panic message instead.
C11_OneErrorLinePerMessageExit ==
    FatalExit =>
        /\ exitSite \in MessageExitSites => Len(stderr) = 1 /\ stderr[1] # ""
        /\ exitSite = "get_input_files" =>
              stderr = IF usage = "printed" THEN <<>>
                       ELSE <<"Panic during printing help">>
        /\ exitSite = "execute" => stderr = <<>>
        /\ exitSite = "html_panic" => stderr = <<"thread 'main' panicked">>

\* C11 witness: write_json fails on the second source and the one error line
\* is on the error stream when the process exits with 3.
C11_Witness ==
    /\ pc = "done"
    /\ exitSite = "write_json"
    /\ current = 1
    /\ stderr = <<"output error">>
    /\ exitCode = 3

\* The number of RunRecords of rs whose success flag is true.
SuccessCount(rs) == Cardinality({i \in DOMAIN rs : rs[i].hurl_result.success})

\* The sum of the two printed percentages, in tenths of a percent.
PercentSum(s) == s.success_percent.tenths + s.failed_percent.tenths

\* The summary prints the counts of the collection and the duration given.
SummaryCounts(s) ==
    /\ s.total = Len(fnRuns)
    /\ s.success = SuccessCount(fnRuns)
    /\ s.failed = Len(fnRuns) - SuccessCount(fnRuns)
    /\ s.success + s.failed = s.total
    /\ s.duration = fnArgs.duration

\* The summary prints numbers as percentages.
SummaryNumbers(s) ==
    /\ ~s.success_percent.nan /\ ~s.success_percent.inf
    /\ ~s.failed_percent.nan /\ ~s.failed_percent.inf

\* C12, as claimed: for every collection with total > 0 the summary prints
\* the counts of the collection and two percentages that sum to 100.0.
C12_Claim ==
    (fnResult.called /\ Len(fnRuns) > 0)
        => /\ SummaryCounts(fnResult.summary)
           /\ SummaryNumbers(fnResult.summary)
           /\ PercentSum(fnResult.summary) = 1000

\* C12, amended: for every collection with total > 0 the summary prints the
\* counts of the collection, the duration given, and two percentages that
\* sum to 99.9, 100.0 or 100.1; 3 of 3 prints 100.0% and 0.0%, 2 of 3 prints
\* 66.7% and 33.3%.
C12_SummaryCountsAndPercentages ==
    (fnResult.called /\ Len(fnRuns) > 0)
        => LET s == fnResult.summary
           IN  /\ SummaryCounts(s)
               /\ SummaryNumbers(s)
               /\ PercentSum(s) \in {999, 1000, 1001}
               /\ (s.total = 3 /\ s.success = 3)
                     => /\ s.success_percent.tenths = 1000
                        /\ s.failed_percent.tenths = 0
               /\ (s.total = 3 /\ s.success = 2)
                     => /\ s.success_percent.tenths = 667
                        /\ s.failed_percent.tenths = 333

\* C12 witness: the second case of the test create_run_summary, two of three
\* runs succeeding in 200 ms.
C12_Witness ==
    /\ fnResult.called
    /\ Len(fnRuns) = 3
    /\ fnRuns[1].hurl_result.success
    /\ ~fnRuns[2].hurl_result.success
    /\ fnRuns[3].hurl_result.success
    /\ fnResult.summary.success_percent.tenths = 667
    /\ fnResult.summary.failed_percent.tenths = 333
    /\ fnResult.summary.duration = 200

\* C18: given an empty RunRecord collection (total = 0), get_summary does
\* not divide by total: neither percentage is the quotient 0.0 / 0.0 (NaN).
C18_Claim ==
    (fnResult.called /\ fnRuns = <<>>)
        => /\ fnResult.summary.total = 0
           /\ ~fnResult.summary.success_percent.nan
           /\ ~fnResult.summary.failed_percent.nan

\* The positional values of the call, none when the option is absent.
PositionalArgs == IF fnArgs.files.some THEN fnArgs.files.values ELSE <<>>

\* C13: get_input_files returns the positional arguments followed by the
\* glob-expanded paths, in caller order and with duplicates kept, whenever
\* there is one of them; with none and a standard input that is not a
\* terminal it returns the list holding only "-"; a returned list is never
\* empty.
C13_InputResolution ==
    fnResult.called
        => LET r == fnResult.result
               n == Len(PositionalArgs)
               g == Len(fnArgs.glob_files)
           IN  /\ n + g > 0
                     => /\ ~r.exit
                        /\ Len(r.filenames) = n + g
                        /\ \A i \in 1..n : r.filenames[i] = PositionalArgs[i]
                        /\ \A j \in 1..g :
                               r.filenames[n + j] = fnArgs.glob_files[j]
               /\ (n + g = 0 /\ ~fnArgs.stdinTty)
                     => ~r.exit /\ r.filenames = <<Stdin>>
               /\ ~r.exit => r.filenames # <<>>

\* C13 witness: two positional arguments and a glob path that repeats one
\* of them come back as three sources, positional first.
C13_Witness ==
    /\ fnResult.called
    /\ PositionalArgs = <<"b.hurl", "a.hurl">>
    /\ fnArgs.glob_files = <<"a.hurl">>
    /\ ~fnResult.result.exit
    /\ fnResult.result.filenames = <<"b.hurl", "a.hurl", "a.hurl">>

\* The stages of main after the loop over filenames.
AfterLoopPcs == {"junit", "html", "cookies", "summary", "exit_code"}

\* The exits main takes after the loop over filenames.
AfterLoopExitSites == {"junit", "html_panic", "html", "cookies", "exit_code"}

\* The loop over filenames has run to its end.
LoopCompleted == pc \in AfterLoopPcs \/ exitSite \in AfterLoopExitSites

\* s is the first Len(s) elements of t.
IsPrefix(s, t) == Len(s) <= Len(t) /\ \A i \in 1..Len(s) : s[i] = t[i]

\* The runs are the records of the first `current` sources, in input order,
\* and the engine has been called on those sources and at most on the next.
RunsAreFirstSources ==
    /\ Len(runs) = current
    /\ current <= Len(filenames)
    /\ \A i \in 1..Len(runs) :
          /\ runs[i].filename = filenames[i]
          /\ runs[i].content = ContentOf(filenames[i])
    /\ IsPrefix(executed, filenames)
    /\ Len(executed) \in {current, current + 1}
    /\ LoopCompleted => Len(runs) = Len(filenames)

\* A step leaves the runs alone or appends one run to them.
RunsAppendOnly ==
    /\ Len(runs') \in {Len(runs), Len(runs) + 1}
    /\ \A i \in 1..Len(runs) : runs'[i] = runs[i]

\* C14: sources are executed one at a time in input order and the runs are
\* append-only: at every point they are the records of the first k sources
\* in input order, no step removes or changes an entry, and after the loop
\* there is one run per resolved source, a source listed twice giving two.
C14_RunsAppendOnlyInInputOrder ==
    []RunsAreFirstSources /\ [][RunsAppendOnly]_vars

\* C14 witness: the loop has completed over a source listed twice and two
\* runs were collected.
C14_Witness ==
    /\ pc = "junit"
    /\ filenames = <<"a.hurl", "a.hurl">>
    /\ Len(runs) = 2
    /\ runs[1].filename = "a.hurl" /\ runs[2].filename = "a.hurl"

\* C15: when execute returns Err for a source, the process exits at once
\* with code 2: that source gets no RunRecord and no completion
\* notification, no later source is read or executed, and no report is
\* written, whatever RunRecords earlier sources produced.
C15_ParseFailureExits2 ==
    exitSite = "execute"
        => /\ pc = "done"
           /\ exitCode = EXIT_ERROR_PARSING
           /\ current < Len(filenames)
           /\ Len(runs) = current
           /\ completed = SubSeq(filenames, 1, current)
           /\ executed = SubSeq(filenames, 1, current + 1)
           /\ reads = SubSeq(filenames, 1, current + 1)
           /\ NoReportWritten

\* C15 witness: the second source fails to parse after the first produced a
\* RunRecord, with a JUnit report requested.
C15_Witness ==
    /\ exitSite = "execute"
    /\ exitCode = EXIT_ERROR_PARSING
    /\ Len(filenames) = 2
    /\ current = 1
    /\ Len(runs) = 1
    /\ opts.junit_file

\* The report writers in the order main calls them.
ReportOrder == <<"junit", "html", "cookies", "summary">>

\* The place of a writer in ReportOrder.
WriterPos(w) == CHOOSE i \in DOMAIN ReportOrder : ReportOrder[i] = w

\* The writer's target was requested on the command line.
Requested(w) ==
    CASE w = "junit" -> opts.junit_file
      [] w = "html" -> opts.html_dir
      [] w = "cookies" -> opts.cookie_output_file
      [] w = "summary" -> opts.test

\* The place in ReportOrder main is at or exited at: the writers before it
\* have been passed; 0 before the end of the loop.
ReportStage ==
    IF pc \in AfterLoopPcs
    THEN IF pc = "exit_code" THEN Len(ReportOrder) + 1 ELSE WriterPos(pc)
    ELSE CASE exitSite \in {"junit", "html", "cookies"} -> WriterPos(exitSite)
           [] exitSite = "html_panic" -> WriterPos("html")
           [] exitSite = "exit_code" -> Len(ReportOrder) + 1
           [] OTHER -> 0

\* A report writer failed.
WriterFailed == exitSite \in {"junit", "html_panic", "html", "cookies"}

\* C16: report writers run only after the whole loop, each only if
\* requested, in the order JUnit report, HTML report, cookie file, summary;
\* when a writer fails the process exits there: no later writer has run, the
\* reports of earlier writers remain, and the exit code is not one that
\* exit_code produces.
C16_WritersSequentialAbortOnFirstFailure ==
    /\ ReportStage = 0 => NoReportWritten
    /\ ReportStage > 0
          => /\ Len(runs) = Len(filenames)
             /\ reports = SelectSeq(SubSeq(ReportOrder, 1, ReportStage - 1),
                                    Requested)
    /\ WriterFailed
          => /\ pc = "done"
             /\ exitCode \notin {EXIT_OK, EXIT_ERROR_ASSERT, EXIT_ERROR_RUNTIME}
             /\ exitCode \in {EXIT_ERROR_UNDEFINED} \cup PanicExitCodes

\* C16 witness: the HTML report fails after the JUnit report was written,
\* with the cookie file and the summary requested too.
C16_Witness ==
    /\ exitSite = "html"
    /\ exitCode = EXIT_ERROR_UNDEFINED
    /\ reports = <<"junit">>
    /\ opts.cookie_output_file
    /\ opts.test
    /\ cookieFile = NoFile

\* The filenames of the runs, in the order of the runs.
RunFilenames == [i \in DOMAIN runs |-> runs[i].filename]

\* w is among the reports written.
Written(w) == \E i \in DOMAIN reports : reports[i] = w

\* C17: the HTML report writes one detail page per RunRecord and hands the
\* index writer one testcase per RunRecord, in the order of the RunRecords,
\* the index being written only after every detail page; the JUnit report
\* receives one testcase per RunRecord in the same order.
C17_OneEntryPerRunInOrder ==
    /\ htmlPages # <<>> => IsPrefix(htmlPages, RunFilenames)
    /\ htmlIndex # <<>> => htmlIndex = RunFilenames /\ htmlPages = RunFilenames
    /\ (reports # <<>> /\ Written("html"))
          => htmlPages = RunFilenames /\ htmlIndex = RunFilenames
    /\ (reports # <<>> /\ Written("junit"))
          => /\ Len(junitTestcases) = Len(runs)
             /\ \A i \in DOMAIN runs :
                   /\ junitTestcases[i].name = runs[i].filename
                   /\ junitTestcases[i] = JunitTestcase(runs[i])

\* C17 witness: both reports written for two runs of different sources.
C17_Witness ==
    /\ Written("junit") /\ Written("html")
    /\ RunFilenames = <<"b.hurl", "a.hurl">>
    /\ htmlPages = <<"b.hurl", "a.hurl">>
    /\ htmlIndex = <<"b.hurl", "a.hurl">>
    /\ Len(junitTestcases) = 2
    /\ junitTestcases[1].name = "b.hurl"

\* The outputs main writes for a run: the response body, then the JSON
\* result.
RunOutputs(run) ==
    (IF /\ run.hurl_result.success
        /\ ~opts.interactive
        /\ opts.output_type = "ResponseBody"
     THEN <<[kind |-> "body", filename |-> run.filename]>> ELSE <<>>) \o
    (IF opts.output_type = "Json"
     THEN <<[kind |-> "json", filename |-> run.filename]>> ELSE <<>>)

\* The outputs main writes for the runs, in the order of the runs.
RECURSIVE OutputsOfRuns(_)
OutputsOfRuns(rs) ==
    IF rs = <<>> THEN <<>>
    ELSE OutputsOfRuns(SubSeq(rs, 1, Len(rs) - 1)) \o RunOutputs(rs[Len(rs)])

\* The exits main takes inside the loop on a source it cannot access or
\* parse.
SourceAbortSites == {"no_such_file", "read_to_string", "execute"}

\* C19: sources are checked and read one by one inside the loop: when the
\* process aborts on source k (it does not exist, cannot be read, or fails
\* to parse), the sources before k, and only they, have been run to a
\* result and have their response body or JSON result written, and no
\* source after k has been looked at.
C19_AbortKeepsEarlierSourcesOnly ==
    exitSite \in SourceAbortSites
        => /\ pc = "done"
           /\ exitCode = EXIT_ERROR_PARSING
           /\ current < Len(filenames)
           /\ Len(runs) = current
           /\ RunFilenames = SubSeq(filenames, 1, current)
           /\ completed = SubSeq(filenames, 1, current)
           /\ outputs = OutputsOfRuns(runs)
           /\ reads = SubSeq(filenames, 1,
                             IF exitSite = "no_such_file"
                             THEN current ELSE current + 1)
           /\ executed = SubSeq(filenames, 1,
                                IF exitSite = "execute"
                                THEN current + 1 ELSE current)
           /\ started = executed

\* C19 witness: the second source does not exist after the first was run
\* and its JSON result written.
C19_Witness ==
    /\ exitSite = "no_such_file"
    /\ filenames = <<"a.hurl", "b.hurl">>
    /\ current = 1
    /\ completed = <<"a.hurl">>
    /\ outputs = <<[kind |-> "json", filename |-> "a.hurl"]>>

\* C20: the process exits with 0 only if every resolved source was read and
\* run to a RunRecord, no RunRecord holds an error, every response body and
\* JSON result due was written, and every requested report (JUnit report,
\* HTML report, cookie file) was written.
C20_Exit0OnlyIfAllSucceeded ==
    exitCode = EXIT_OK
        => /\ AtExitCodeStage
           /\ filenames # <<>>
           /\ reads = filenames
           /\ completed = filenames
           /\ RunFilenames = filenames
           /\ \A i \in DOMAIN runs :
                 ErrorsOf(runs[i]) = <<>> /\ runs[i].hurl_result.success
           /\ outputs = OutputsOfRuns(runs)
           /\ \A w \in {"junit", "html", "cookies"} : Requested(w) => Written(w)
           /\ opts.junit_file => Len(junitTestcases) = Len(runs)
           /\ opts.html_dir => htmlIndex = RunFilenames
           /\ opts.cookie_output_file => cookieFile.exists

\* C20 witness: two sources run without error, their response bodies
\* written, both reports requested and written, and the process exits
\* with 0.
C20_Witness ==
    /\ AtExitCodeStage
    /\ exitCode = EXIT_OK
    /\ Len(runs) = 2
    /\ Len(outputs) = 2
    /\ opts.junit_file /\ opts.html_dir
    /\ Written("junit") /\ Written("html")

====
